---- MODULE Spec2Model ----
(***************************************************************************)
(* Model of bs-list-utils: get_dups and dedup (dup.rs) and diff (diff.rs), *)
(* each run as a loop-by-loop state machine over a BTreeMap.               *)
(*                                                                         *)
(* An element is a record [key, id, src]: `key` is what get_item_key       *)
(* returns, `id` is the element's position in the input slice `src`, so    *)
(* that two elements with the same key remain distinguishable.  Keys are   *)
(* integers ordered by <, standing for any K: Ord.                         *)
(***************************************************************************)
EXTENDS Integers, Sequences, FiniteSets, TLC

\* Bounds of the model.
MaxLen == 4
MaxKey == 3

Keys == 1..MaxKey
KeySeqs == UNION {[1..n -> Keys] : n \in 0..MaxLen}

\* The input slice `src` built from a sequence of keys: element i carries key
\* ks[i]; (src, id) is the element's address.
Items(ks, src) == [j \in 1..Len(ks) |-> [key |-> ks[j], id |-> j, src |-> src]]

\* HasItemKey::get_item_key
get_item_key(item) == item.key

VARIABLES
  op,         \* which function is running: "get_dups", "dedup" or "diff"
  pc,         \* position inside that function
  list,       \* argument of get_dups / dedup
  left,       \* arguments of diff
  right,
  i,          \* index of the running for loop
  map,        \* get_dups: key -> count;  dedup: key -> Value
  left_map,   \* diff: key -> &Left
  right_map,  \* diff: key -> &Right
  ignored,    \* diff: the `ignored` vector
  dups,       \* return value of get_dups
  res,        \* dedup: the `res` struct
  dres        \* diff: the `diff` struct

vars == <<op, pc, list, left, right, i, map, left_map, right_map, ignored,
          dups, res, dres>>

----------------------------------------------------------------------------
\* BTreeMap, as a function whose domain is the set of stored keys.

EmptyMap == <<>>

SetMin(s) == CHOOSE x \in s : \A y \in s : x <= y

RECURSIVE SortedSeq(_)
SortedSeq(s) == IF s = {} THEN <<>>
                ELSE LET m == SetMin(s) IN <<m>> \o SortedSeq(s \ {m})

RECURSIVE SortedSeqDesc(_)
SortedSeqDesc(s) == IF s = {} THEN <<>>
                    ELSE LET m == SetMin(s) IN SortedSeqDesc(s \ {m}) \o <<m>>

\* Mutant of BTreeIter: iterates from the greatest key down.
BTreeIterDesc(m) == SortedSeqDesc(DOMAIN m)

\* The keys of a BTreeMap in iteration order (ascending by Ord).
BTreeIter(m) == SortedSeq(DOMAIN m)

\* BTreeMap::insert: stores v under k, returns the previous occupant as an
\* Option (<<>> is None, <<old>> is Some(old)).
BTreeInsert(m, k, v) ==
  [map |-> [x \in DOMAIN m \cup {k} |-> IF x = k THEN v ELSE m[x]],
   replaced |-> IF k \in DOMAIN m THEN <<m[k]>> ELSE <<>>]

\* BTreeMap::remove, the map that is left.
BTreeRemove(m, k) == [x \in DOMAIN m \ {k} |-> m[x]]

----------------------------------------------------------------------------
\* get_dups

\* Mutant of CountInsert: the first occurrence is not counted.
CountInsertSkipFirst(m, key) ==
  IF key \in DOMAIN m THEN [m EXCEPT ![key] = @ + 1]
  ELSE [x \in DOMAIN m \cup {key} |-> IF x = key THEN 0 ELSE m[x]]

\* map.entry(key).or_insert(0); *value += 1
CountInsert(m, key) ==
  LET m0 == IF key \in DOMAIN m THEN m
            ELSE [x \in DOMAIN m \cup {key} |-> IF x = key THEN 0 ELSE m[x]]
  IN [m0 EXCEPT ![key] = @ + 1]

\* map.into_iter().filter(|(_, v)| *v > 1).collect()
FilterDups(m) ==
  LET keep == {k \in DOMAIN m : m[k] > 1} IN [k \in keep |-> m[k]]

GetDupsFor ==
  /\ op = "get_dups" /\ pc = "for"
  /\ i <= Len(list)
  /\ map' = CountInsert(map, get_item_key(list[i]))
  /\ i' = i + 1
  /\ UNCHANGED <<op, pc, list, left, right, left_map, right_map, ignored,
                 dups, res, dres>>

GetDupsReturn ==
  /\ op = "get_dups" /\ pc = "for"
  /\ i > Len(list)
  /\ dups' = FilterDups(map)
  /\ pc' = "done"
  /\ UNCHANGED <<op, list, left, right, i, map, left_map, right_map, ignored,
                 res, dres>>

----------------------------------------------------------------------------
\* dedup

Placeholder == [tag |-> "Placeholder"]
Single(v) == [tag |-> "Single", value |-> v]
Multi(vs) == [tag |-> "Multi", values |-> vs]

\* std::mem::replace(e.get_mut(), Value::Placeholder): the slot now holds
\* Placeholder, the old value is handed to the match.
ReplaceWithPlaceholder(m, k) ==
  [map |-> [m EXCEPT ![k] = Placeholder], old |-> m[k]]

\* Mutant of OccupiedArm: the Single arm forgets to write the slot back.
OccupiedArmNoWriteBack(m, k, old, item) ==
  CASE old.tag = "Placeholder" -> [map |-> m, panic |-> TRUE]
    [] old.tag = "Single" -> [map |-> m, panic |-> FALSE]
    [] old.tag = "Multi" ->
         [map |-> [m EXCEPT ![k] = Multi(Append(old.values, item))],
          panic |-> FALSE]

\* The match on the replaced value in the Entry::Occupied arm.
OccupiedArm(m, k, old, item) ==
  CASE old.tag = "Placeholder" -> [map |-> m, panic |-> TRUE]
    [] old.tag = "Single" ->
         [map |-> [m EXCEPT ![k] = Multi(<<old.value, item>>)],
          panic |-> FALSE]
    [] old.tag = "Multi" ->
         [map |-> [m EXCEPT ![k] = Multi(Append(old.values, item))],
          panic |-> FALSE]

DedupOccupied ==
  /\ op = "dedup" /\ pc = "for"
  /\ i <= Len(list)
  /\ get_item_key(list[i]) \in DOMAIN map
  /\ LET k == get_item_key(list[i])
         r == ReplaceWithPlaceholder(map, k)
         a == OccupiedArm(r.map, k, r.old, list[i])
     IN /\ map' = a.map
        /\ pc' = IF a.panic THEN "panic" ELSE pc
  /\ i' = i + 1
  /\ UNCHANGED <<op, list, left, right, left_map, right_map, ignored,
                 dups, res, dres>>

DedupVacant ==
  /\ op = "dedup" /\ pc = "for"
  /\ i <= Len(list)
  /\ get_item_key(list[i]) \notin DOMAIN map
  /\ map' = BTreeInsert(map, get_item_key(list[i]), Single(list[i])).map
  /\ i' = i + 1
  /\ UNCHANGED <<op, pc, list, left, right, left_map, right_map, ignored,
                 dups, res, dres>>

\* let mut res = Dedup { set: ItemSet(vec![]), removed: BTreeMap::new() }
DedupInitRes ==
  /\ op = "dedup" /\ pc = "for"
  /\ i > Len(list)
  /\ res' = [set |-> <<>>, removed |-> EmptyMap]
  /\ pc' = "collect"
  /\ i' = 1
  /\ UNCHANGED <<op, list, left, right, map, left_map, right_map, ignored,
                 dups, dres>>

\* Mutant of CollectArm: keeps the first element of a Multi list.
CollectArmKeepFirst(r, k, v) ==
  CASE v.tag = "Placeholder" -> [res |-> r, panic |-> TRUE]
    [] v.tag = "Single" ->
         [res |-> [r EXCEPT !.set = Append(@, v.value)], panic |-> FALSE]
    [] v.tag = "Multi" ->
         IF v.values = <<>> THEN [res |-> r, panic |-> TRUE]
         ELSE [res |-> [set |-> Append(r.set, Head(v.values)),
                        removed |-> BTreeInsert(r.removed, k,
                                                Tail(v.values)).map],
               panic |-> FALSE]

\* Mutant of CollectArm: the removed list keeps the popped element too.
CollectArmNoPop(r, k, v) ==
  CASE v.tag = "Placeholder" -> [res |-> r, panic |-> TRUE]
    [] v.tag = "Single" ->
         [res |-> [r EXCEPT !.set = Append(@, v.value)], panic |-> FALSE]
    [] v.tag = "Multi" ->
         IF v.values = <<>> THEN [res |-> r, panic |-> TRUE]
         ELSE [res |-> [set |-> Append(r.set, v.values[Len(v.values)]),
                        removed |-> BTreeInsert(r.removed, k, v.values).map],
               panic |-> FALSE]

\* Mutant of CollectArm: a Single value is recorded in removed with an
\* empty list.
CollectArmSingleRemoved(r, k, v) ==
  CASE v.tag = "Placeholder" -> [res |-> r, panic |-> TRUE]
    [] v.tag = "Single" ->
         [res |-> [set |-> Append(r.set, v.value),
                   removed |-> BTreeInsert(r.removed, k, <<>>).map],
          panic |-> FALSE]
    [] v.tag = "Multi" ->
         IF v.values = <<>> THEN [res |-> r, panic |-> TRUE]
         ELSE [res |-> [set |-> Append(r.set, v.values[Len(v.values)]),
                        removed |-> BTreeInsert(r.removed, k,
                                     SubSeq(v.values, 1, Len(v.values) - 1)).map],
               panic |-> FALSE]

\* The match on v in the final pass; values.pop().unwrap() panics on an
\* empty vector.
CollectArm(r, k, v) ==
  CASE v.tag = "Placeholder" -> [res |-> r, panic |-> TRUE]
    [] v.tag = "Single" ->
         [res |-> [r EXCEPT !.set = Append(@, v.value)], panic |-> FALSE]
    [] v.tag = "Multi" ->
         IF v.values = <<>> THEN [res |-> r, panic |-> TRUE]
         ELSE [res |-> [set |-> Append(r.set, v.values[Len(v.values)]),
                        removed |-> BTreeInsert(r.removed, k,
                                     SubSeq(v.values, 1, Len(v.values) - 1)).map],
               panic |-> FALSE]

\* for (k, v) in map { ... }, one iteration
DedupCollect ==
  /\ op = "dedup" /\ pc = "collect"
  /\ i <= Len(BTreeIter(map))
  /\ LET k == BTreeIter(map)[i]
         a == CollectArm(res, k, map[k])
     IN /\ res' = a.res
        /\ pc' = IF a.panic THEN "panic" ELSE pc
  /\ i' = i + 1
  /\ UNCHANGED <<op, list, left, right, map, left_map, right_map, ignored,
                 dups, dres>>

DedupReturn ==
  /\ op = "dedup" /\ pc = "collect"
  /\ i > Len(BTreeIter(map))
  /\ pc' = "done"
  /\ UNCHANGED <<op, list, left, right, i, map, left_map, right_map, ignored,
                 dups, res, dres>>

----------------------------------------------------------------------------
\* diff

DiffIgnoredLeft(x) == [tag |-> "Left", item |-> x]
DiffIgnoredRight(x) == [tag |-> "Right", item |-> x]

\* Mutant of ScanLeft: on a key collision the new element is logged and the
\* first occupant is kept.
ScanLeftKeepFirst(m, ign, item) ==
  IF get_item_key(item) \in DOMAIN m
  THEN [map |-> m, ignored |-> Append(ign, DiffIgnoredLeft(item))]
  ELSE [map |-> BTreeInsert(m, get_item_key(item), item).map, ignored |-> ign]

\* Mutant of ScanLeft: the evicted element is dropped without being logged.
ScanLeftNoLog(m, ign, item) ==
  [map |-> BTreeInsert(m, get_item_key(item), item).map, ignored |-> ign]

\* Mutant of ScanLeft: evictions are pushed at the front of the log.
ScanLeftPrepend(m, ign, item) ==
  LET r == BTreeInsert(m, get_item_key(item), item)
  IN [map |-> r.map,
      ignored |-> IF r.replaced # <<>>
                  THEN <<DiffIgnoredLeft(r.replaced[1])>> \o ign
                  ELSE ign]

\* One iteration of `for item in left`.
ScanLeft(m, ign, item) ==
  LET r == BTreeInsert(m, get_item_key(item), item)
  IN [map |-> r.map,
      ignored |-> IF r.replaced # <<>>
                  THEN Append(ign, DiffIgnoredLeft(r.replaced[1]))
                  ELSE ign]

\* One iteration of `for item in right`.
ScanRight(m, ign, item) ==
  LET r == BTreeInsert(m, get_item_key(item), item)
  IN [map |-> r.map,
      ignored |-> IF r.replaced # <<>>
                  THEN Append(ign, DiffIgnoredRight(r.replaced[1]))
                  ELSE ign]

\* let mut diff = Diff { left: vec![], both: vec![], right: vec![], ignored }
NewDiff(ign) == [left |-> <<>>, both |-> <<>>, right |-> <<>>, ignored |-> ign]

\* Mutant of WalkStep: the matched entry is looked up but not removed from
\* right_map.
WalkStepNoRemove(d, rm, k, v) ==
  IF k \in DOMAIN rm
  THEN [diff |-> [d EXCEPT !.both = Append(@, <<v, rm[k]>>)], right_map |-> rm]
  ELSE [diff |-> [d EXCEPT !.left = Append(@, v)], right_map |-> rm]

\* One iteration of `for (k, v) in &left_map`: match right_map.remove(k).
WalkStep(d, rm, k, v) ==
  IF k \in DOMAIN rm
  THEN [diff |-> [d EXCEPT !.both = Append(@, <<v, rm[k]>>)],
        right_map |-> BTreeRemove(rm, k)]
  ELSE [diff |-> [d EXCEPT !.left = Append(@, v)], right_map |-> rm]

\* if !right_map.is_empty() { diff.right = right_map.into_iter().map(..) }
CollectRight(d, rm) ==
  IF DOMAIN rm # {}
  THEN [d EXCEPT !.right = [j \in 1..Len(BTreeIter(rm)) |-> rm[BTreeIter(rm)[j]]]]
  ELSE d

DiffLeftFor ==
  /\ op = "diff" /\ pc = "left_for"
  /\ i <= Len(left)
  /\ LET s == ScanLeft(left_map, ignored, left[i])
     IN /\ left_map' = s.map
        /\ ignored' = s.ignored
  /\ i' = i + 1
  /\ UNCHANGED <<op, pc, list, left, right, map, right_map, dups, res, dres>>

DiffLeftEnd ==
  /\ op = "diff" /\ pc = "left_for"
  /\ i > Len(left)
  /\ pc' = "right_for"
  /\ i' = 1
  /\ UNCHANGED <<op, list, left, right, map, left_map, right_map, ignored,
                 dups, res, dres>>

DiffRightFor ==
  /\ op = "diff" /\ pc = "right_for"
  /\ i <= Len(right)
  /\ LET s == ScanRight(right_map, ignored, right[i])
     IN /\ right_map' = s.map
        /\ ignored' = s.ignored
  /\ i' = i + 1
  /\ UNCHANGED <<op, pc, list, left, right, map, left_map, dups, res, dres>>

DiffInit ==
  /\ op = "diff" /\ pc = "right_for"
  /\ i > Len(right)
  /\ dres' = NewDiff(ignored)
  /\ pc' = "walk"
  /\ i' = 1
  /\ UNCHANGED <<op, list, left, right, map, left_map, right_map, ignored,
                 dups, res>>

DiffWalk ==
  /\ op = "diff" /\ pc = "walk"
  /\ i <= Len(BTreeIter(left_map))
  /\ LET k == BTreeIter(left_map)[i]
         w == WalkStep(dres, right_map, k, left_map[k])
     IN /\ dres' = w.diff
        /\ right_map' = w.right_map
  /\ i' = i + 1
  /\ UNCHANGED <<op, pc, list, left, right, map, left_map, ignored, dups, res>>

DiffReturn ==
  /\ op = "diff" /\ pc = "walk"
  /\ i > Len(BTreeIter(left_map))
  /\ dres' = CollectRight(dres, right_map)
  /\ pc' = "done"
  /\ UNCHANGED <<op, list, left, right, i, map, left_map, right_map, ignored,
                 dups, res>>

\* diff as a function of its two arguments: the same loop bodies, folded.
RECURSIVE left_loop(_, _, _)
left_loop(l, j, s) ==
  IF j > Len(l) THEN s ELSE left_loop(l, j + 1, ScanLeft(s.map, s.ignored, l[j]))

RECURSIVE right_loop(_, _, _)
right_loop(r, j, s) ==
  IF j > Len(r) THEN s ELSE right_loop(r, j + 1, ScanRight(s.map, s.ignored, r[j]))

RECURSIVE walk_loop(_, _, _)
walk_loop(lm, j, w) ==
  IF j > Len(BTreeIter(lm)) THEN w
  ELSE LET k == BTreeIter(lm)[j]
       IN walk_loop(lm, j + 1, WalkStep(w.diff, w.right_map, k, lm[k]))

diff(l, r) ==
  LET ls == left_loop(l, 1, [map |-> EmptyMap, ignored |-> <<>>])
      rs == right_loop(r, 1, [map |-> EmptyMap, ignored |-> ls.ignored])
      w == walk_loop(ls.map, 1, [diff |-> NewDiff(rs.ignored), right_map |-> rs.map])
  IN CollectRight(w.diff, w.right_map)

----------------------------------------------------------------------------
\* A call of one of the three functions on arbitrary bounded input.

Init ==
  /\ \/ /\ op = "get_dups" /\ pc = "for"
        /\ \E ks \in KeySeqs : list = Items(ks, "list")
        /\ left = <<>> /\ right = <<>>
     \/ /\ op = "dedup" /\ pc = "for"
        /\ \E ks \in KeySeqs : list = Items(ks, "list")
        /\ left = <<>> /\ right = <<>>
     \/ /\ op = "diff" /\ pc = "left_for"
        /\ list = <<>>
        /\ \E ks \in KeySeqs : left = Items(ks, "left")
        /\ \E ks \in KeySeqs : right = Items(ks, "right")
  /\ i = 1
  /\ map = EmptyMap
  /\ left_map = EmptyMap
  /\ right_map = EmptyMap
  /\ ignored = <<>>
  /\ dups = EmptyMap
  /\ res = [set |-> <<>>, removed |-> EmptyMap]
  /\ dres = NewDiff(<<>>)

Next ==
  \/ GetDupsFor
  \/ GetDupsReturn
  \/ DedupOccupied
  \/ DedupVacant
  \/ DedupInitRes
  \/ DedupCollect
  \/ DedupReturn
  \/ DiffLeftFor
  \/ DiffLeftEnd
  \/ DiffRightFor
  \/ DiffInit
  \/ DiffWalk
  \/ DiffReturn

Spec == Init /\ [][Next]_vars

----------------------------------------------------------------------------
\* Vocabulary of the properties, defined on the input sequences alone.

Range(s) == {s[j] : j \in DOMAIN s}
KeysOf(S) == {S[j].key : j \in DOMAIN S}
PositionsOf(S, k) == {j \in DOMAIN S : S[j].key = k}
KeyCount(S, k) == Cardinality(PositionsOf(S, k))
SetMax(s) == CHOOSE x \in s : \A y \in s : y <= x
LastWith(S, k) == S[SetMax(PositionsOf(S, k))]
Occurrences(s, e) == Cardinality({j \in DOMAIN s : s[j] = e})
StrictlyAscending(ks) == \A a, b \in DOMAIN ks : a < b => ks[a] < ks[b]
KeySeqOf(s) == [j \in DOMAIN s |-> s[j].key]

\* The elements of S with key k, in input order.
WithKey(S, k) == LET Test(e) == e.key = k IN SelectSeq(S, Test)

RECURSIVE Flatten(_, _)
Flatten(m, ks) ==
  IF ks = <<>> THEN <<>> ELSE m[Head(ks)] \o Flatten(m, Tail(ks))

\* All elements of all lists of a key -> list mapping.
AllRemoved(m) == Flatten(m, SortedSeq(DOMAIN m))

\* The eviction log of the first n elements of S: position j evicts the most
\* recent earlier element with the same key, if there is one.
RECURSIVE EvictionLog(_, _, _)
EvictionLog(S, n, t) ==
  IF n = 0 THEN <<>>
  ELSE LET prev == {j \in 1..(n - 1) : S[j].key = S[n].key}
       IN EvictionLog(S, n - 1, t) \o
            (IF prev = {} THEN <<>> ELSE <<[tag |-> t, item |-> S[SetMax(prev)]]>>)

GetDupsDone == op = "get_dups" /\ pc = "done"
DedupDone == op = "dedup" /\ pc = "done"
DiffDone == op = "diff" /\ pc = "done"

----------------------------------------------------------------------------
\* C1: get_dups returns exactly the keys carried by at least two elements,
\* each mapped to the number of elements carrying it; keys occurring once
\* are absent (and the empty input gives the empty map).
C1_GetDupsCounts ==
  GetDupsDone =>
    /\ DOMAIN dups = {k \in Keys : KeyCount(list, k) >= 2}
    /\ \A k \in DOMAIN dups : dups[k] = KeyCount(list, k)

C1_Witness ==
  /\ GetDupsDone
  /\ \E k \in DOMAIN dups : dups[k] >= 3
  /\ \E k \in KeysOf(list) : KeyCount(list, k) = 1

\* C2: dedup(S).set holds exactly one element per distinct key of S, the
\* last element of S carrying that key.
C2_DedupKeepsLast ==
  DedupDone =>
    /\ Len(res.set) = Cardinality(KeysOf(list))
    /\ \A k \in KeysOf(list) :
         /\ Cardinality({j \in DOMAIN res.set : res.set[j].key = k}) = 1
         /\ LastWith(list, k) \in Range(res.set)

C2_Witness ==
  /\ DedupDone
  /\ \E k \in KeysOf(list) : KeyCount(list, k) >= 2
  /\ \E k \in KeysOf(list) : KeyCount(list, k) = 1

\* C3: the elements of dedup(S).set together with those of all removed
\* lists are exactly the elements of S, each input position once.
C3_DedupPartition ==
  DedupDone =>
    LET out == res.set \o AllRemoved(res.removed)
    IN /\ Len(out) = Len(list)
       /\ \A j \in DOMAIN list : Occurrences(out, list[j]) = 1

C3_Witness ==
  /\ DedupDone
  /\ Len(res.set) >= 2
  /\ Len(AllRemoved(res.removed)) >= 2

\* C4: a key is in dedup(S).removed iff at least two elements of S carry
\* it; its list is the elements with that key other than the last one, in
\* input order, so of length count - 1 and never empty.
C4_DedupRemoved ==
  DedupDone =>
    /\ DOMAIN res.removed = {k \in Keys : KeyCount(list, k) >= 2}
    /\ \A k \in DOMAIN res.removed :
         /\ Len(res.removed[k]) = KeyCount(list, k) - 1
         /\ res.removed[k] = SubSeq(WithKey(list, k), 1, KeyCount(list, k) - 1)
         /\ res.removed[k] # <<>>

C4_Witness ==
  /\ DedupDone
  /\ \E k \in DOMAIN res.removed : Len(res.removed[k]) >= 2
  /\ \E k \in KeysOf(list) : k \notin DOMAIN res.removed

\* The ignored entries of one side, in log order.
IgnoredOf(ign, t) ==
  LET Test(e) == e.tag = t
      sel == SelectSeq(ign, Test)
  IN [j \in DOMAIN sel |-> sel[j].item]

BothLeft(d) == [j \in DOMAIN d.both |-> d.both[j][1]]
BothRight(d) == [j \in DOMAIN d.both |-> d.both[j][2]]

\* C5: diff partitions each side: every position of L is in exactly one of
\* left, the first components of both, the Left entries of ignored, and
\* these hold nothing else; the same for R with right, the second
\* components and the Right entries.
C5_DiffPartition ==
  DiffDone =>
    LET lout == dres.left \o BothLeft(dres) \o IgnoredOf(dres.ignored, "Left")
        rout == dres.right \o BothRight(dres) \o IgnoredOf(dres.ignored, "Right")
    IN /\ Len(lout) = Len(left)
       /\ \A j \in DOMAIN left : Occurrences(lout, left[j]) = 1
       /\ Len(rout) = Len(right)
       /\ \A j \in DOMAIN right : Occurrences(rout, right[j]) = 1
       /\ Len(dres.ignored) =
            Len(IgnoredOf(dres.ignored, "Left")) + Len(IgnoredOf(dres.ignored, "Right"))

C5_Witness ==
  /\ DiffDone
  /\ dres.left # <<>> /\ dres.both # <<>> /\ dres.right # <<>>
  /\ IgnoredOf(dres.ignored, "Left") # <<>>
  /\ IgnoredOf(dres.ignored, "Right") # <<>>

\* C6: swapping the arguments of diff swaps left and right and reverses
\* each tuple of both, order preserved.
C6_DiffSwap ==
  DiffDone =>
    LET sw == diff(right, left)
    IN /\ dres.left = sw.right
       /\ dres.right = sw.left
       /\ Len(sw.both) = Len(dres.both)
       /\ \A j \in DOMAIN dres.both :
            sw.both[j] = <<dres.both[j][2], dres.both[j][1]>>

C6_Witness ==
  /\ DiffDone
  /\ dres.left # <<>> /\ dres.both # <<>> /\ dres.right # <<>>
  /\ dres.ignored # <<>>
  /\ diff(right, left).both # <<>>

\* C7: diff classifies by key, last write wins on each side: both holds one
\* pair per shared key, (last of L, last of R); left the last L element of
\* each key only in L; right the last R element of each key only in R.
\* With no repeated key on either side ignored is empty.
C7_DiffClassifies ==
  DiffDone =>
    LET kl == KeysOf(left)
        kr == KeysOf(right)
    IN /\ Len(dres.both) = Cardinality(kl \cap kr)
       /\ Range(dres.both) =
            {<<LastWith(left, k), LastWith(right, k)>> : k \in kl \cap kr}
       /\ Len(dres.left) = Cardinality(kl \ kr)
       /\ Range(dres.left) = {LastWith(left, k) : k \in kl \ kr}
       /\ Len(dres.right) = Cardinality(kr \ kl)
       /\ Range(dres.right) = {LastWith(right, k) : k \in kr \ kl}
       /\ ((\A k \in Keys : KeyCount(left, k) <= 1 /\ KeyCount(right, k) <= 1)
             => dres.ignored = <<>>)

C7_Witness ==
  /\ DiffDone
  /\ dres.left # <<>> /\ dres.both # <<>> /\ dres.right # <<>>
  /\ \E k \in KeysOf(left) \cap KeysOf(right) :
       KeyCount(left, k) >= 2 /\ KeyCount(right, k) >= 2

\* C8: the ignored log is built in eviction order: after n elements of the
\* left scan it is the eviction log of those n elements, each entry the most
\* recent earlier element with the evicting element's key; the right scan
\* then appends its own, so every Left entry precedes every Right entry.
C8_IgnoredOrder ==
  op = "diff" =>
    /\ pc = "left_for" => ignored = EvictionLog(left, i - 1, "Left")
    /\ pc = "right_for" =>
         ignored = EvictionLog(left, Len(left), "Left")
                     \o EvictionLog(right, i - 1, "Right")
    /\ pc \in {"walk", "done"} =>
         /\ ignored = EvictionLog(left, Len(left), "Left")
                        \o EvictionLog(right, Len(right), "Right")
         /\ dres.ignored = ignored
    /\ \A a, b \in DOMAIN ignored :
         ignored[a].tag = "Left" /\ ignored[b].tag = "Right" => a < b

C8_Witness ==
  /\ DiffDone
  /\ Len(IgnoredOf(dres.ignored, "Left")) >= 2
  /\ Len(IgnoredOf(dres.ignored, "Right")) >= 1
  /\ \E a, b \in DOMAIN dres.ignored :
       /\ a < b
       /\ dres.ignored[a].tag = "Left" /\ dres.ignored[b].tag = "Left"
       /\ dres.ignored[a].item.key > dres.ignored[b].item.key

\* C9: the key-ordered outputs are strictly ascending by key whatever the
\* input order: dedup's set, and diff's left, both and right.
C9_KeyOrder ==
  /\ op = "dedup" => StrictlyAscending(KeySeqOf(res.set))
  /\ op = "diff" =>
       /\ StrictlyAscending(KeySeqOf(dres.left))
       /\ StrictlyAscending(KeySeqOf(BothLeft(dres)))
       /\ StrictlyAscending(KeySeqOf(BothRight(dres)))
       /\ StrictlyAscending(KeySeqOf(dres.right))

C9_Witness ==
  /\ DiffDone
  /\ Len(dres.left) >= 2 /\ dres.both # <<>>
  /\ \A a, b \in DOMAIN left : a < b => left[a].key >= left[b].key

\* C10: no call panics: no slot of dedup's map holds Placeholder between
\* loop iterations or in the final pass, every Multi list holds at least two
\* elements, and no run reaches a panic.
C10_NoPanic ==
  /\ pc # "panic"
  /\ op = "dedup" =>
       \A k \in DOMAIN map :
         /\ map[k].tag \in {"Single", "Multi"}
         /\ map[k].tag = "Multi" => Len(map[k].values) >= 2

C10_Witness ==
  /\ DedupDone
  /\ \E k \in DOMAIN map : map[k].tag = "Multi" /\ Len(map[k].values) >= 3
  /\ \E k \in DOMAIN map : map[k].tag = "Single"

====
